---- MODULE Spec2Model ----
(***************************************************************************)
(* A model of nitrogen.input: the actuation controller                     *)
(* (keyboard_mouse.py), the identifier tables (keymap.py), the raw mouse   *)
(* capture (raw_input.py) and the state sampler (keyboard_mouse_state.py). *)
(***************************************************************************)
EXTENDS Integers, Sequences, FiniteSets, TLC

VARIABLES
    ctl,          \* the KeyboardMouseController object (its fields)
    events,       \* the dispatch calls made by the last step()/reset(), in order
    raised,       \* whether the last call raised
    last,         \* the last call made on the controller: its name and action
    prev,         \* how the call before the last one relates to it
    sent,         \* what the backend was made to inject so far: the keys and buttons down
    twin,         \* a second controller, built with dry_run=True (SpecDryRun)
    twin_events,  \* the dispatch calls made by the twin's last call
    ex_in,        \* the arguments of one extraction call (SpecExtract)
    ex_out,       \* its result
    hook,         \* the RawMouseHook object (its fields)
    lock,         \* the holder of hook._lock
    pump,         \* the threads running RawMouseHook._run, each with its locals
    caller,       \* the thread calling start(), stop() and poll(), with its locals
    os,           \* the windows, the posted messages and the raw-input target
    n_events,     \* the input messages delivered so far
    owed,         \* the deltas added to the accumulator and not yet returned by poll()
    since,        \* the deltas added since poll() last read the accumulator
    sampler,      \* the KeyboardMouseState object (its fields)
    snapshot,     \* what its last sample() call returned, and how it got there
    n_samples     \* the sample() calls made so far

vars ==
    <<ctl, events, raised, last, prev, sent, twin, twin_events, ex_in, ex_out,
      hook, lock, pump, caller, os, n_events, owed, since,
      sampler, snapshot, n_samples>>

ctlVars == <<ctl, events, raised, last, prev, sent>>
twinVars == <<twin, twin_events>>
exVars == <<ex_in, ex_out>>
hookVars == <<hook, lock, pump, caller, os, n_events, owed, since>>
samVars == <<sampler, snapshot, n_samples>>

(***************************************************************************)
(* keymap.py                                                               *)
(***************************************************************************)
VK_CODE ==
    ("backspace" :> 8) @@ ("tab" :> 9) @@ ("enter" :> 13) @@ ("shift" :> 16) @@
    ("ctrl" :> 17) @@ ("alt" :> 18) @@ ("pause" :> 19) @@ ("capslock" :> 20) @@
    ("esc" :> 27) @@ ("space" :> 32) @@ ("pageup" :> 33) @@ ("pagedown" :> 34) @@
    ("end" :> 35) @@ ("home" :> 36) @@ ("left" :> 37) @@ ("up" :> 38) @@
    ("right" :> 39) @@ ("down" :> 40) @@ ("insert" :> 45) @@ ("delete" :> 46) @@
    ("0" :> 48) @@ ("1" :> 49) @@ ("2" :> 50) @@ ("3" :> 51) @@ ("4" :> 52) @@
    ("5" :> 53) @@ ("6" :> 54) @@ ("7" :> 55) @@ ("8" :> 56) @@ ("9" :> 57) @@
    ("a" :> 65) @@ ("b" :> 66) @@ ("c" :> 67) @@ ("d" :> 68) @@ ("e" :> 69) @@
    ("f" :> 70) @@ ("g" :> 71) @@ ("h" :> 72) @@ ("i" :> 73) @@ ("j" :> 74) @@
    ("k" :> 75) @@ ("l" :> 76) @@ ("m" :> 77) @@ ("n" :> 78) @@ ("o" :> 79) @@
    ("p" :> 80) @@ ("q" :> 81) @@ ("r" :> 82) @@ ("s" :> 83) @@ ("t" :> 84) @@
    ("u" :> 85) @@ ("v" :> 86) @@ ("w" :> 87) @@ ("x" :> 88) @@ ("y" :> 89) @@
    ("z" :> 90) @@ ("lshift" :> 160) @@ ("rshift" :> 161) @@ ("lctrl" :> 162) @@
    ("rctrl" :> 163) @@ ("lalt" :> 164) @@ ("ralt" :> 165) @@ ("f1" :> 112) @@
    ("f2" :> 113) @@ ("f3" :> 114) @@ ("f4" :> 115) @@ ("f5" :> 116) @@
    ("f6" :> 117) @@ ("f7" :> 118) @@ ("f8" :> 119) @@ ("f9" :> 120) @@
    ("f10" :> 121) @@ ("f11" :> 122) @@ ("f12" :> 123)

KEY_ALIASES ==
    ("escape" :> "esc") @@ ("return" :> "enter") @@ ("control" :> "ctrl") @@
    ("lcontrol" :> "lctrl") @@ ("rcontrol" :> "rctrl") @@ ("option" :> "alt")

MOUSE_BUTTON_VK ==
    ("left" :> 1) @@ ("right" :> 2) @@ ("middle" :> 4) @@ ("x1" :> 5) @@ ("x2" :> 6)

MOUSE_BUTTON_FLAGS ==
    ("left" :> <<2, 4, 0>>) @@ ("right" :> <<8, 16, 0>>) @@
    ("middle" :> <<32, 64, 0>>) @@ ("x1" :> <<128, 256, 1>>) @@
    ("x2" :> <<128, 256, 2>>)

\* str.strip() on the strings the model feeds in: surrounding blanks removed.
StrStrip(s) ==
    CASE s = " Return " -> "Return"
      [] s = " W " -> "W"
      [] s = " Mouse4 " -> "Mouse4"
      [] s = " 1 " -> "1"
      [] OTHER -> s

\* str.lower() on the strings the model feeds in.
StrLower(s) ==
    CASE s = "Return" -> "return"
      [] s = "W" -> "w"
      [] s = "Mouse4" -> "mouse4"
      [] s = "LEFT" -> "left"
      [] OTHER -> s

normalize_key(name) ==
    LET key == StrLower(StrStrip(name))
    IN  IF key \in DOMAIN KEY_ALIASES THEN KEY_ALIASES[key] ELSE key

normalize_mouse_button(name) ==
    LET button == StrLower(StrStrip(name))
    IN  IF button \in {"mouse1", "button1"} THEN "left"
        ELSE IF button \in {"mouse2", "button2"} THEN "right"
        ELSE IF button \in {"mouse3", "button3"} THEN "middle"
        ELSE IF button \in {"mouse4", "button4"} THEN "x1"
        ELSE IF button \in {"mouse5", "button5"} THEN "x2"
        ELSE button

(***************************************************************************)
(* Python values as they reach the controller.  An element is a number, a  *)
(* string, None or a (non-hashable) list; a field of an action is absent,  *)
(* a scalar, a list/tuple, a set (in its iteration order) or a mapping.    *)
(***************************************************************************)
Num(n) == [t |-> "num", n |-> n, s |-> ""]
Str(s) == [t |-> "str", n |-> 0, s |-> s]
NoneV == [t |-> "none", n |-> 0, s |-> ""]
ListV == [t |-> "list", n |-> 1, s |-> ""]

Absent == [shape |-> "absent", elems |-> <<>>, items |-> {}]
Scalar(e) == [shape |-> "scalar", elems |-> <<e>>, items |-> {}]
List(es) == [shape |-> "list", elems |-> es, items |-> {}]
SetOf(es) == [shape |-> "set", elems |-> es, items |-> {}]
Map(kv) == [shape |-> "map", elems |-> <<>>, items |-> kv]

\* dict.get(name, default)
Get(field, default) == IF field.shape = "absent" THEN default ELSE field

\* The decimal strings int() and float() accept among the modelled strings.
DIGITS ==
    ("0" :> 0) @@ ("1" :> 1) @@ ("2" :> 2) @@ ("3" :> 3) @@ ("4" :> 4) @@
    ("5" :> 5) @@ ("6" :> 6) @@ ("7" :> 7) @@ ("8" :> 8) @@ ("9" :> 9)

\* float(value) / int(value) returns (TRUE) or raises (FALSE).
Converts(e) ==
    \/ e.t = "num"
    \/ e.t = "str" /\ StrStrip(e.s) \in DOMAIN DIGITS

\* The number float(value) / int(value) returns when it does not raise.
Converted(e) == IF e.t = "num" THEN e.n ELSE DIGITS[StrStrip(e.s)]

\* bool(value)
Truthy(e) ==
    CASE e.t = "num" -> e.n # 0
      [] e.t = "str" -> e.s # ""
      [] e.t = "none" -> FALSE
      [] OTHER -> TRUE

\* hash(value) succeeds
Hashable(e) == e.t # "list"

\* Optional[list]: None, or a list.
NoList == [some |-> FALSE, items |-> <<>>]
SomeList(l) == [some |-> TRUE, items |-> l]
\* bool(optional list): None and [] are falsy
ListTruthy(ol) == ol.some /\ ol.items # <<>>

Range(f) == {f[i] : i \in DOMAIN f}

\* Every order in which a set can be iterated.
Perms(S) ==
    {p \in [1..Cardinality(S) -> S] : \A i, j \in 1..Cardinality(S) : p[i] = p[j] => i = j}

(***************************************************************************)
(* keyboard_mouse.py                                                       *)
(***************************************************************************)
_value_from_action(value) ==
    IF value.shape = "scalar" /\ value.elems[1].t = "none" THEN 0
    ELSE IF /\ value.shape = "list"
            /\ Len(value.elems) > 0
            /\ Converts(value.elems[1])
         THEN Converted(value.elems[1])
    ELSE IF value.shape = "scalar" /\ Converts(value.elems[1])
         THEN Converted(value.elems[1])
    ELSE 0

VectorNone == [none |-> TRUE, names |-> {}]
VectorSome(S) == [none |-> FALSE, names |-> S]

\* As _vector_to_names, selecting on value >= 0.
VectorToNamesNonNegative(raw, names) ==
    IF raw.shape \notin {"list", "set"} THEN VectorNone
    ELSE IF Len(raw.elems) # Len(names) THEN VectorNone
    ELSE IF \E i \in 1..Len(raw.elems) : ~Converts(raw.elems[i]) THEN VectorNone
    ELSE VectorSome({names[i] : i \in {j \in 1..Len(names) : Converted(raw.elems[j]) >= 0}})

_vector_to_names(raw, names) ==
    IF raw.shape \notin {"list", "set"} THEN VectorNone
    ELSE IF Len(raw.elems) # Len(names) THEN VectorNone
    ELSE IF \E i \in 1..Len(raw.elems) : ~Converts(raw.elems[i]) THEN VectorNone
    ELSE VectorSome({names[i] : i \in {j \in 1..Len(names) : Converted(raw.elems[j]) > 0}})

Raises == [raised |-> TRUE, names |-> {}]
Returns(S) == [raised |-> FALSE, names |-> S]

\* The candidate names of lines 160-165 and 180-185.
Candidates(raw) ==
    IF raw.shape = "map" THEN {kv[1] : kv \in {x \in raw.items : Truthy(x[2])}}
    ELSE IF raw.shape \in {"list", "set"} THEN Range(raw.elems)
    ELSE {}

\* As _extract_keys, without the membership test of line 175.
ExtractKeysUnfiltered(key_list, raw) ==
    IF raw.shape \in {"list", "set"} /\ \E e \in Range(raw.elems) : ~Hashable(e)
    THEN Raises
    ELSE LET keys == Candidates(raw)
             vector_keys == _vector_to_names(raw, key_list.items)
         IN  IF ListTruthy(key_list) /\ raw.shape # "map" /\ ~vector_keys.none
             THEN Returns(vector_keys.names)
             ELSE Returns({normalize_key(k.s) : k \in {e \in keys : e.t = "str"}})

_extract_keys(key_list, raw) ==
    IF raw.shape \in {"list", "set"} /\ \E e \in Range(raw.elems) : ~Hashable(e)
    THEN Raises
    ELSE LET keys == Candidates(raw)
             vector_keys == _vector_to_names(raw, key_list.items)
         IN  IF ListTruthy(key_list) /\ raw.shape # "map" /\ ~vector_keys.none
             THEN Returns(vector_keys.names)
             ELSE Returns({normalize_key(k.s) :
                              k \in {e \in keys : e.t = "str"
                                                  /\ normalize_key(e.s) \in DOMAIN VK_CODE}})

_extract_buttons(mouse_button_list, raw) ==
    IF raw.shape \in {"list", "set"} /\ \E e \in Range(raw.elems) : ~Hashable(e)
    THEN Raises
    ELSE LET buttons == Candidates(raw)
             vector_buttons == _vector_to_names(raw, mouse_button_list.items)
         IN  IF ListTruthy(mouse_button_list) /\ raw.shape # "map" /\ ~vector_buttons.none
             THEN Returns(vector_buttons.names)
             ELSE Returns({normalize_mouse_button(b.s) :
                              b \in {e \in buttons :
                                        e.t = "str"
                                        /\ normalize_mouse_button(e.s) \in DOMAIN MOUSE_BUTTON_FLAGS}})

\* Lines 108-110: the key whitelist as the constructor stores it.
InitKeyList(key_list) ==
    IF ~ListTruthy(key_list) THEN NoList
    ELSE SomeList(SelectSeq([i \in 1..Len(key_list.items) |-> normalize_key(key_list.items[i])],
                            LAMBDA k : k \in DOMAIN VK_CODE))

\* Lines 111-113: the button whitelist as the constructor stores it.
InitMouseButtonList(mouse_buttons) ==
    IF ~ListTruthy(mouse_buttons) THEN NoList
    ELSE SomeList(SelectSeq([i \in 1..Len(mouse_buttons.items) |->
                                normalize_mouse_button(mouse_buttons.items[i])],
                            LAMBDA b : b \in DOMAIN MOUSE_BUTTON_FLAGS))

\* As InitBackend, without the downgrade of lines 115-116.
InitBackendAsRequested(backend, sendinput_available) == backend

\* Lines 115-116: the backend after the downgrade.
InitBackend(backend, sendinput_available) ==
    IF backend = "sendinput" /\ ~sendinput_available THEN "pyautogui" ELSE backend

\* KeyboardMouseController.__init__; constructed = FALSE when it raises ImportError.
\* The record keeps the backend asked for and the two module-level
\* capabilities, _SENDINPUT_AVAILABLE and pyautogui is not None.
KeyboardMouseController(dry_run, backend, key_list, mouse_buttons, sendinput_available, pyautogui_available) ==
    [dry_run |-> dry_run,
     requested |-> backend,
     sendinput_available |-> sendinput_available,
     pyautogui_available |-> pyautogui_available,
     backend |-> InitBackend(backend, sendinput_available),
     pressed_keys |-> {},
     pressed_mouse_buttons |-> {},
     key_list |-> InitKeyList(key_list),
     mouse_button_list |-> InitMouseButtonList(mouse_buttons),
     constructed |-> ~(InitBackend(backend, sendinput_available) = "pyautogui"
                       /\ ~pyautogui_available)]

\* The dispatch calls: _key_event, _mouse_button_event, _mouse_move, _mouse_wheel.
KeyEvent(key, is_down) ==
    [kind |-> "key", name |-> key, is_down |-> is_down, dx |-> 0, dy |-> 0, amount |-> 0]
MouseButtonEvent(button, is_down) ==
    [kind |-> "button", name |-> button, is_down |-> is_down, dx |-> 0, dy |-> 0, amount |-> 0]
MouseMove(dx, dy) ==
    [kind |-> "move", name |-> "", is_down |-> FALSE, dx |-> dx, dy |-> dy, amount |-> 0]
MouseWheel(amount) ==
    [kind |-> "wheel", name |-> "", is_down |-> FALSE, dx |-> 0, dy |-> 0, amount |-> amount]

KeyEvents(order, is_down) == [i \in DOMAIN order |-> KeyEvent(order[i], is_down)]
ButtonEvents(order, is_down) == [i \in DOMAIN order |-> MouseButtonEvent(order[i], is_down)]

\* As MotionEvents, with "if dx != 0" at line 142.
MotionEventsMoveOnDx(dx, dy, wheel) ==
    (IF dx # 0 THEN <<MouseMove(dx, dy)>> ELSE <<>>)
    \o (IF wheel # 0 THEN <<MouseWheel(wheel)>> ELSE <<>>)

\* Lines 142-145: the move and the wheel event of a step.
MotionEvents(dx, dy, wheel) ==
    (IF dx # 0 \/ dy # 0 THEN <<MouseMove(dx, dy)>> ELSE <<>>)
    \o (IF wheel # 0 THEN <<MouseWheel(wheel)>> ELSE <<>>)

\* As StepEvents, without the loop of lines 138-139.
StepEventsNoButtonRelease(kr, kp, br, bp) ==
    KeyEvents(kr, FALSE) \o KeyEvents(kp, TRUE) \o ButtonEvents(bp, TRUE)

\* As StepEvents, with the loops of lines 134-137 in the other order.
StepEventsPressFirst(kr, kp, br, bp) ==
    KeyEvents(kp, TRUE) \o KeyEvents(kr, FALSE)
    \o ButtonEvents(br, FALSE) \o ButtonEvents(bp, TRUE)

\* Lines 134-141: the key and button events of a step, for given iteration orders.
StepEvents(kr, kp, br, bp) ==
    KeyEvents(kr, FALSE) \o KeyEvents(kp, TRUE)
    \o ButtonEvents(br, FALSE) \o ButtonEvents(bp, TRUE)

\* As StepHeld, with the assignments of lines 147-148 left out.
StepHeldForgotten(c, desired_keys, desired_buttons) == c

\* As StepHeld, with the assignments of lines 147-148 under "if not self.dry_run".
StepHeldLiveOnly(c, desired_keys, desired_buttons) ==
    IF c.dry_run THEN c
    ELSE [c EXCEPT !.pressed_keys = desired_keys, !.pressed_mouse_buttons = desired_buttons]

\* Lines 147-148: the held sets after a step.
StepHeld(c, desired_keys, desired_buttons) ==
    [c EXCEPT !.pressed_keys = desired_keys, !.pressed_mouse_buttons = desired_buttons]

\* Line 133: whether the events are dispatched.
Dispatches(c) == ~c.dry_run

EmptyList == List(<<>>)
Zero == Scalar(Num(0))

\* Line 122: the keys the action asks for.
DesiredKeys(c, action) == _extract_keys(c.key_list, Get(action.keys, EmptyList))

\* As DesiredButtons, decoding against self.key_list.
DesiredButtonsKeyList(c, action) ==
    _extract_buttons(c.key_list, Get(action.mouse_buttons, EmptyList))

\* Line 123: the buttons the action asks for.
DesiredButtons(c, action) ==
    _extract_buttons(c.mouse_button_list, Get(action.mouse_buttons, EmptyList))

\* KeyboardMouseController.step: every outcome (one per iteration order of the sets).
step(c, action) ==
    LET ek == DesiredKeys(c, action)
        eb == DesiredButtons(c, action)
        desired_keys == ek.names
        desired_buttons == eb.names
        dx == _value_from_action(Get(action.mouse_dx, Zero))
        dy == _value_from_action(Get(action.mouse_dy, Zero))
        wheel == _value_from_action(Get(action.mouse_wheel, Zero))
        keys_to_release == c.pressed_keys \ desired_keys
        keys_to_press == desired_keys \ c.pressed_keys
        buttons_to_release == c.pressed_mouse_buttons \ desired_buttons
        buttons_to_press == desired_buttons \ c.pressed_mouse_buttons
    IN  IF ek.raised \/ eb.raised
        THEN {[ctl |-> c, events |-> <<>>, raised |-> TRUE]}
        ELSE {[ctl |-> StepHeld(c, desired_keys, desired_buttons),
               events |-> IF Dispatches(c)
                          THEN StepEvents(kr, kp, br, bp) \o MotionEvents(dx, dy, wheel)
                          ELSE <<>>,
               raised |-> FALSE] :
                 kr \in Perms(keys_to_release), kp \in Perms(keys_to_press),
                 br \in Perms(buttons_to_release), bp \in Perms(buttons_to_press)}

\* As reset, without the loop of lines 154-155 and with clear() on the keys only.
ResetKeysOnly(c) ==
    {[ctl |-> [c EXCEPT !.pressed_keys = {}],
      events |-> IF Dispatches(c) THEN KeyEvents(kr, FALSE) ELSE <<>>,
      raised |-> FALSE] :
        kr \in Perms(c.pressed_keys)}

\* KeyboardMouseController.reset: every outcome.
reset(c) ==
    {[ctl |-> [c EXCEPT !.pressed_keys = {}, !.pressed_mouse_buttons = {}],
      events |-> IF Dispatches(c)
                 THEN KeyEvents(kr, FALSE) \o ButtonEvents(br, FALSE)
                 ELSE <<>>,
      raised |-> FALSE] :
        kr \in Perms(c.pressed_keys), br \in Perms(c.pressed_mouse_buttons)}

\* One injection made through the backend: pyautogui.keyDown/keyUp/mouseDown/
\* mouseUp or one _send_input call.
Injected(kind, name, is_down) == [kind |-> kind, name |-> name, is_down |-> is_down]

\* Lines 214-231: the injections _key_event(key, is_down) makes.
_key_event(c, key, is_down) ==
    IF c.backend = "pyautogui" THEN <<Injected("key", key, is_down)>>
    ELSE IF key \notin DOMAIN VK_CODE THEN <<>>
    ELSE <<Injected("key", key, is_down)>>

\* As _mouse_button_event, with a fallback path that also leaves out "left".
MouseButtonEventRightMiddle(c, button, is_down) ==
    IF c.backend = "pyautogui" /\ button \notin {"right", "middle"} THEN <<>>
    ELSE <<Injected("button", button, is_down)>>

\* Lines 240-252: the injections _mouse_button_event(button, is_down) makes.
\* The fallback path returns at once for a button other than left, right and
\* middle; the SendInput path looks the button up in MOUSE_BUTTON_FLAGS.
_mouse_button_event(c, button, is_down) ==
    IF c.backend = "pyautogui"
    THEN IF button \notin {"left", "right", "middle"} THEN <<>>
         ELSE <<Injected("button", button, is_down)>>
    ELSE IF button \in DOMAIN MOUSE_BUTTON_FLAGS
         THEN <<Injected("button", button, is_down)>>
         ELSE <<>>

\* The key and button injections a sequence of dispatch calls makes, in order.
RECURSIVE Injections(_, _)
Injections(c, calls) ==
    IF calls = <<>> THEN <<>>
    ELSE LET ev == Head(calls)
         IN  (CASE ev.kind = "key" -> _key_event(c, ev.name, ev.is_down)
                [] ev.kind = "button" -> _mouse_button_event(c, ev.name, ev.is_down)
                [] OTHER -> <<>>)
             \o Injections(c, Tail(calls))

NothingSent == [keys |-> {}, buttons |-> {}, faults |-> {}]

\* The keys and buttons down after the injections of one call, and what went
\* wrong on the way: a press of something down, a release of something up, a
\* press and a release of one thing within the call.
RECURSIVE Receive(_, _, _)
Receive(s, inj, touched) ==
    IF inj = <<>> THEN s
    ELSE LET i == Head(inj)
             down == IF i.kind = "key" THEN s.keys ELSE s.buttons
             id == <<i.kind, i.name>>
             fault == (IF i.is_down /\ i.name \in down THEN {"pressed twice"} ELSE {})
                      \cup (IF ~i.is_down /\ i.name \notin down
                            THEN {"released while up"} ELSE {})
                      \cup (IF \E t \in touched : t[1] = id /\ t[2] # i.is_down
                            THEN {"pressed and released"} ELSE {})
             after == IF i.is_down THEN down \cup {i.name} ELSE down \ {i.name}
         IN  Receive([keys |-> IF i.kind = "key" THEN after ELSE s.keys,
                      buttons |-> IF i.kind = "button" THEN after ELSE s.buttons,
                      faults |-> s.faults \cup fault],
                     Tail(inj), touched \cup {<<id, i.is_down>>})

\* sent after a call of the controller c that made the dispatch calls `calls`.
Sent(c, s, calls) == Receive(s, Injections(c, calls), {})

(***************************************************************************)
(* raw_input.py                                                            *)
(***************************************************************************)
WM_INPUT == 255
WM_CLOSE == 16
WM_DESTROY == 2
WM_MOUSEWHEEL == 522
WM_QUIT == 18
RIM_TYPEMOUSE == 0
RI_MOUSE_WHEEL == 1024
MOUSE_MOVE_ABSOLUTE == 1

MaxThreads == 1
MaxEvents == 3

Threads == DOMAIN pump

\* x & flag # 0, for a flag of one bit
BitSet(x, flag) == (x \div flag) % 2 = 1

\* ctypes.c_short(x).value: the low 16 bits of x as a signed number
c_short(x) == IF x % 65536 >= 32768 THEN (x % 65536) - 65536 ELSE x % 65536

Triple(dx, dy, wheel) == [dx |-> dx, dy |-> dy, wheel |-> wheel]
Plus(a, b) == Triple(a.dx + b.dx, a.dy + b.dy, a.wheel + b.wheel)
Minus(a, b) == Triple(a.dx - b.dx, a.dy - b.dy, a.wheel - b.wheel)
ZeroTriple == Triple(0, 0, 0)

\* None, for a handle, a thread or a position
None == 0
NoPos == <<>>

\* RawMouseHook.__init__
RawMouseHook ==
    [dx |-> 0, dy |-> 0, wheel |-> 0, last_abs |-> NoPos,
     thread |-> None, thread_id |-> None, ready |-> FALSE, error |-> "", hwnd |-> None]

\* A WPARAM by its words: bits 16 and up, and the low 16 bits.
WParam(high, low) == [high |-> high, low |-> low]

NoMsg ==
    [status |-> "", dwType |-> 0, usFlags |-> 0, usButtonFlags |-> 0,
     usButtonData |-> 0, lLastX |-> 0, lLastY |-> 0, wparam |-> WParam(0, 0)]

\* What GetRawInputData hands to _handle_raw_input: the two calls may fail
\* ("no_size", "empty", "short_read") or deliver a RAWINPUT record ("read").
RawInput(status, dwType, usFlags, usButtonFlags, usButtonData, lLastX, lLastY) ==
    [status |-> status, dwType |-> dwType, usFlags |-> usFlags,
     usButtonFlags |-> usButtonFlags, usButtonData |-> usButtonData,
     lLastX |-> lLastX, lLastY |-> lLastY, wparam |-> WParam(0, 0)]

RawInputs ==
    {RawInput(st, 0, 0, 0, 0, 1, 1) : st \in {"no_size", "empty", "short_read"}}
    \cup {RawInput("read", 1, 0, 0, 0, 1, 1),
          RawInput("read", RIM_TYPEMOUSE, 0, RI_MOUSE_WHEEL, 65416, 1, -1),
          RawInput("read", RIM_TYPEMOUSE, MOUSE_MOVE_ABSOLUTE, 0, 0, 5, 3),
          RawInput("read", RIM_TYPEMOUSE, MOUSE_MOVE_ABSOLUTE + 2, RI_MOUSE_WHEEL + 1, 120, 7, 2)}

\* The wParam of a WM_MOUSEWHEEL message: the wheel delta in the high word, the
\* key state in the low word.
WheelParams == {WParam(65416, 8)}

NoLocals == [pc |-> "unborn", msg |-> NoMsg, d |-> ZeroTriple, abs_before |-> NoPos]

\* Lines 236-251: the deltas _handle_raw_input computes from a mouse record.
RawDelta(mouse, last_abs) ==
    LET absolute == BitSet(mouse.usFlags, MOUSE_MOVE_ABSOLUTE)
        dx == IF absolute /\ last_abs # NoPos THEN mouse.lLastX - last_abs[1]
              ELSE mouse.lLastX
        dy == IF absolute /\ last_abs # NoPos THEN mouse.lLastY - last_abs[2]
              ELSE mouse.lLastY
        wheel == IF BitSet(mouse.usButtonFlags, RI_MOUSE_WHEEL)
                 THEN c_short(mouse.usButtonData) ELSE 0
    IN  Triple(dx, dy, wheel)

\* Lines 243-247: the absolute sample _handle_raw_input leaves stored.
RawLastAbs(mouse, last_abs) ==
    IF BitSet(mouse.usFlags, MOUSE_MOVE_ABSOLUTE) THEN <<mouse.lLastX, mouse.lLastY>>
    ELSE last_abs

\* Lines 212-237: whether _handle_raw_input gets as far as the mouse record.
RawReadable(raw) == raw.status = "read" /\ raw.dwType = RIM_TYPEMOUSE

\* _handle_message, lines 195-209: what the window procedure does with a message.
_handle_message(msg) ==
    CASE msg = WM_INPUT -> "_handle_raw_input"
      [] msg = WM_MOUSEWHEEL -> "add_wheel"
      [] msg = WM_CLOSE -> "DestroyWindow"
      [] msg = WM_DESTROY -> "PostQuitMessage"
      [] OTHER -> "DefWindowProcW"

\* Line 199: the delta of a WM_MOUSEWHEEL message.
WheelDelta(wparam) == c_short(wparam.high % 65536)

\* A lock that excludes nobody.
AcquireUnguarded(l) == l \in {"free", "caller", "pump"}

\* threading.Lock: acquire() returns when nobody holds the lock.
CanAcquire(l) == l = "free"

HookIdle(n) ==
    /\ hook = RawMouseHook
    /\ lock = "free"
    /\ pump = [t \in 1..n |-> NoLocals]
    /\ caller = [pc |-> "idle", op |-> "", result |-> "", started |-> FALSE, got |-> ZeroTriple,
                 expected |-> ZeroTriple]
    /\ os = [windows |-> {}, posted |-> {}, raw_target |-> None]
    /\ n_events = 0
    /\ owed = ZeroTriple
    /\ since = ZeroTriple

NoHook == HookIdle(0)

(***************************************************************************)
(* keyboard_mouse_state.py                                                 *)
(***************************************************************************)
\* Lines 26-35: of a list of normalised names, those known to the table, each
\* once and in the order of their first appearance.
Configured(normalised, table) ==
    LET RECURSIVE Go(_, _)
        Go(i, acc) ==
            IF i > Len(normalised) THEN acc
            ELSE LET norm == normalised[i]
                 IN  IF norm \in DOMAIN table /\ \A j \in DOMAIN acc : acc[j] # norm
                     THEN Go(i + 1, Append(acc, norm))
                     ELSE Go(i + 1, acc)
    IN  Go(1, <<>>)

\* KeyboardMouseState.__init__
KeyboardMouseState(keys, mouse_buttons, raw_mouse) ==
    [keys |-> Configured([i \in DOMAIN keys |-> normalize_key(keys[i])], VK_CODE),
     mouse_buttons |->
         Configured([i \in DOMAIN mouse_buttons |-> normalize_mouse_button(mouse_buttons[i])],
                    MOUSE_BUTTON_VK),
     prev_pos |-> NoPos,
     raw_mouse |-> raw_mouse]

\* What poll() of the capture handle does in one call: it raises, or it
\* returns three numbers.
PollRaises == [raised |-> TRUE, d |-> ZeroTriple]
PollReturns(dx, dy, wheel) == [raised |-> FALSE, d |-> Triple(dx, dy, wheel)]

\* As _cursor_delta, with line 87 left out: the position is never stored.
CursorDeltaNotStored(s, x, y) ==
    [sampler |-> s, d |-> ZeroTriple]

\* KeyboardMouseState._cursor_delta: the sampler afterwards and the delta.
_cursor_delta(s, x, y) ==
    [sampler |-> [s EXCEPT !.prev_pos = <<x, y>>],
     d |-> IF s.prev_pos = NoPos THEN ZeroTriple
           ELSE Triple(x - s.prev_pos[1], y - s.prev_pos[2], 0)]

\* Lines 42-56: the vector and the pressed names of a configured list, for the
\* virtual keys GetAsyncKeyState reports down.
Pressed(names, table, down) ==
    [vec |-> [i \in DOMAIN names |-> IF table[names[i]] \in down THEN 1 ELSE 0],
     names |-> SelectSeq(names, LAMBDA n : table[n] \in down)]

\* As Motion, with the handle dropped for good once its poll() has raised.
MotionStickyFallback(s, x, y, polled) ==
    IF s.raw_mouse /\ ~polled.raised
    THEN [sampler |-> s, d |-> polled.d]
    ELSE [_cursor_delta(s, x, y) EXCEPT !.sampler.raw_mouse = FALSE]

\* Lines 60-66: where the motion of a sample comes from.
Motion(s, x, y, polled) ==
    IF s.raw_mouse /\ ~polled.raised
    THEN [sampler |-> s, d |-> polled.d]
    ELSE _cursor_delta(s, x, y)

\* KeyboardMouseState.sample: the sampler afterwards and the snapshot (the
\* timestamp, a reading of the clock, is left out), with what the call did:
\* whether it called poll() and what poll() returned.
sample(s, down, x, y, polled) ==
    LET k == Pressed(s.keys, VK_CODE, down)
        b == Pressed(s.mouse_buttons, MOUSE_BUTTON_VK, down)
        m == Motion(s, x, y, polled)
    IN  [sampler |-> m.sampler,
         snapshot |-> [keys |-> k.names, keys_vec |-> k.vec,
                       mouse_buttons |-> b.names, mouse_buttons_vec |-> b.vec,
                       mouse_dx |-> m.d.dx, mouse_dy |-> m.d.dy,
                       mouse_wheel |-> m.d.wheel, mouse_pos |-> <<x, y>>,
                       polled |-> IF ~s.raw_mouse THEN "not called"
                                  ELSE IF polled.raised THEN "raised" ELSE "returned",
                       poll_d |-> IF s.raw_mouse THEN polled.d ELSE ZeroTriple]]

NoSnapshot ==
    [keys |-> <<>>, keys_vec |-> <<>>, mouse_buttons |-> <<>>, mouse_buttons_vec |-> <<>>,
     mouse_dx |-> 0, mouse_dy |-> 0, mouse_wheel |-> 0, mouse_pos |-> NoPos,
     polled |-> "", poll_d |-> ZeroTriple]

NoSampler ==
    /\ sampler = KeyboardMouseState(<<>>, <<>>, FALSE)
    /\ snapshot = NoSnapshot
    /\ n_samples = 0

(***************************************************************************)
(* The controller under a script of step() and reset() calls (SpecCtl).    *)
(***************************************************************************)
Action(keys, mouse_buttons, mouse_dx, mouse_dy, mouse_wheel) ==
    [keys |-> keys, mouse_buttons |-> mouse_buttons,
     mouse_dx |-> mouse_dx, mouse_dy |-> mouse_dy, mouse_wheel |-> mouse_wheel]

NoAction == Action(Absent, Absent, Absent, Absent, Absent)

\* The whitelists handed to the constructor: they hold names that need
\* normalising and names the tables do not know.
KeyListArg == SomeList(<<" Return ", "zz", "w">>)
MouseButtonListArg == SomeList(<<"LEFT", "foo", " Mouse4 ">>)

\* The constructor calls: <<dry_run, backend, key_list, mouse_buttons>> and
\* whether SendInput and pyautogui could be loaded.
ConstructorCalls ==
    {<<FALSE, "sendinput", KeyListArg, MouseButtonListArg, TRUE, TRUE>>,
     <<TRUE, "sendinput", KeyListArg, MouseButtonListArg, TRUE, TRUE>>,
     <<FALSE, "sendinput", NoList, NoList, FALSE, TRUE>>,
     <<FALSE, "pyautogui", SomeList(<<"zz">>), NoList, TRUE, TRUE>>,
     <<FALSE, "sendinput", NoList, MouseButtonListArg, TRUE, FALSE>>,
     <<FALSE, "pyautogui", KeyListArg, NoList, FALSE, TRUE>>,
     <<FALSE, "pyautogui", NoList, NoList, TRUE, FALSE>>,
     <<TRUE, "pyautogui", NoList, NoList, FALSE, FALSE>>,
     <<TRUE, "sendinput", NoList, NoList, FALSE, FALSE>>}

Construct(a) == KeyboardMouseController(a[1], a[2], a[3], a[4], a[5], a[6])

Bits == {0, 1}
KeyStrings == {" Return ", "1", "zz"}
ButtonStrings == {"LEFT", " Mouse4 ", "foo"}

\* Numeric vectors: of the whitelists' length, and of other lengths.
Vectors ==
    {List(<<Num(a), Num(b)>>) : a, b \in Bits}
    \cup {List(<<Num(-1), Num(1)>>), List(<<Num(1)>>), List(<<Num(1), Num(0), Num(1)>>)}

\* Collections of names: one name, or " Return " / "LEFT" and another name.
NameLists(first, names) ==
    {List(<<Str(a)>>) : a \in names} \cup {List(<<Str(first), Str(a)>>) : a \in names}

\* Sequences of a whitelist's length with one element that is no number.
MixedLists(name) ==
    {List(<<Num(1), e>>) : e \in {Str(name), NoneV}}
    \cup {List(<<e, Num(0)>>) : e \in {Str(name), ListV}}

KeyFields ==
    {Absent, EmptyList, Scalar(NoneV), SetOf(<<Str("1"), Str(" Return ")>>),
     List(<<Str("1"), Str("1")>>)}
    \cup Vectors \cup NameLists(" Return ", KeyStrings) \cup MixedLists(" Return ")
    \cup {Map({<<Str(" Return "), Num(a)>>, <<Str("1"), Str("zz")>>, <<Num(1), Num(1)>>}) : a \in Bits}
    \cup {Map({<<Str("zz"), Num(1)>>, <<Str("1"), NoneV>>})}

ButtonFields ==
    {Absent, EmptyList, Map({<<Str(" Mouse4 "), Num(1)>>, <<Str("LEFT"), Num(0)>>})}
    \cup Vectors \cup NameLists("LEFT", ButtonStrings) \cup MixedLists("LEFT")

MouseFields ==
    {Absent, Scalar(Num(2)), Scalar(Num(-1)), Scalar(NoneV), Scalar(Str("zz")),
     Scalar(Str(" 1 ")), List(<<Num(3)>>), List(<<>>), List(<<NoneV, Num(2)>>)}

BothKeyFields == {List(<<Str("1")>>), List(<<Num(0), Num(1)>>)}
BothButtonFields == {List(<<Str("LEFT")>>), List(<<Num(0), Num(1)>>)}

Actions ==
    {Action(k, Absent, Absent, Absent, Absent) : k \in KeyFields}
    \cup {Action(Absent, b, Absent, Absent, Absent) : b \in ButtonFields}
    \cup {Action(Absent, Absent, m, Absent, Absent) : m \in MouseFields}
    \cup {Action(Absent, Absent, Absent, m, m) : m \in {Scalar(Num(-1)), List(<<Num(3)>>)}}
    \cup {Action(k, b, m, Absent, m) :
            k \in BothKeyFields, b \in BothButtonFields, m \in {Absent, Scalar(Num(2))}}
    \cup {Action(EmptyList, EmptyList, Zero, Zero, Zero),
          Action(List(<<Num(0), Num(0)>>), List(<<Num(0), Num(0)>>), Absent, Absent, Absent)}

\* How the call before the last one relates to the last one.
Before(l, rsd, op, action) ==
    IF op = "step" /\ l.op = "step" /\ l.action = action THEN "same"
    ELSE IF l.op = "step" /\ ~rsd THEN "step"
    ELSE "other"

NoController ==
    [dry_run |-> TRUE, requested |-> "", sendinput_available |-> FALSE,
     pyautogui_available |-> FALSE, backend |-> "", pressed_keys |-> {}, pressed_mouse_buttons |-> {},
     key_list |-> NoList, mouse_button_list |-> NoList, constructed |-> FALSE]

NoExtraction == [which |-> "", list |-> NoList, raw |-> Absent, done |-> TRUE]

InitCtl ==
    /\ \E a \in ConstructorCalls : ctl = Construct(a)
    /\ events = <<>>
    /\ raised = FALSE
    /\ last = [op |-> "init", action |-> NoAction]
    /\ prev = "other"
    /\ sent = NothingSent
    /\ twin = NoController
    /\ twin_events = <<>>
    /\ ex_in = NoExtraction
    /\ ex_out = Returns({})
    /\ NoHook
    /\ NoSampler

Step ==
    /\ ctl.constructed
    /\ \E action \in Actions :
         \E o \in step(ctl, action) :
            /\ ctl' = o.ctl
            /\ events' = o.events
            /\ raised' = o.raised
            /\ last' = [op |-> "step", action |-> action]
            /\ prev' = Before(last, raised, "step", action)
            /\ sent' = Sent(ctl, sent, o.events)
    /\ UNCHANGED <<twinVars, exVars, hookVars, samVars>>

Reset ==
    /\ ctl.constructed
    /\ \E o \in reset(ctl) :
            /\ ctl' = o.ctl
            /\ events' = o.events
            /\ raised' = o.raised
            /\ last' = [op |-> "reset", action |-> NoAction]
            /\ prev' = Before(last, raised, "reset", NoAction)
            /\ sent' = Sent(ctl, sent, o.events)
    /\ UNCHANGED <<twinVars, exVars, hookVars, samVars>>

NextCtl == Step \/ Reset

SpecCtl == InitCtl /\ [][NextCtl]_vars

(***************************************************************************)
(* The same script run on a live controller and on a dry-run controller    *)
(* built from the same arguments (SpecDryRun).                             *)
(***************************************************************************)
InitDryRun ==
    /\ \E a \in ConstructorCalls :
          /\ ~a[1]
          /\ ctl = Construct(a)
          /\ twin = Construct(<<TRUE, a[2], a[3], a[4], a[5], a[6]>>)
    /\ events = <<>>
    /\ twin_events = <<>>
    /\ raised = FALSE
    /\ last = [op |-> "init", action |-> NoAction]
    /\ prev = "other"
    /\ sent = NothingSent
    /\ ex_in = NoExtraction
    /\ ex_out = Returns({})
    /\ NoHook
    /\ NoSampler

StepBoth ==
    /\ ctl.constructed /\ twin.constructed
    /\ \E action \in Actions :
         \E o \in step(ctl, action), ot \in step(twin, action) :
            /\ ctl' = o.ctl
            /\ events' = o.events
            /\ raised' = o.raised
            /\ twin' = ot.ctl
            /\ twin_events' = ot.events
            /\ last' = [op |-> "step", action |-> action]
            /\ prev' = Before(last, raised, "step", action)
            /\ sent' = Sent(ctl, sent, o.events)
    /\ UNCHANGED <<exVars, hookVars, samVars>>

ResetBoth ==
    /\ ctl.constructed /\ twin.constructed
    /\ \E o \in reset(ctl), ot \in reset(twin) :
            /\ ctl' = o.ctl
            /\ events' = o.events
            /\ raised' = o.raised
            /\ twin' = ot.ctl
            /\ twin_events' = ot.events
            /\ last' = [op |-> "reset", action |-> NoAction]
            /\ prev' = Before(last, raised, "reset", NoAction)
            /\ sent' = Sent(ctl, sent, o.events)
    /\ UNCHANGED <<exVars, hookVars, samVars>>

NextDryRun == StepBoth \/ ResetBoth

SpecDryRun == InitDryRun /\ [][NextDryRun]_vars

(***************************************************************************)
(* One call of _extract_keys or _extract_buttons on arguments drawn from   *)
(* bounded sets (SpecExtract).                                             *)
(***************************************************************************)
MaxLen == 3
MaxNum == 1

RECURSIVE SeqsUpTo(_, _)
SeqsUpTo(S, n) ==
    IF n = 0 THEN {<<>>}
    ELSE LET shorter == SeqsUpTo(S, n - 1)
         IN  shorter \cup {Append(q, e) : q \in {r \in shorter : Len(r) = n - 1}, e \in S}

Distinct(q) == \A i, j \in DOMAIN q : q[i] = q[j] => i = j

Numbers == {Num(n) : n \in (0 - MaxNum)..MaxNum}
KeyElements == Numbers \cup {Str(a) : a \in KeyStrings \cup {" W "}} \cup {NoneV, ListV}
ButtonElements == Numbers \cup {Str(a) : a \in ButtonStrings} \cup {NoneV, ListV}
MapValues == {Num(1), Num(0), NoneV, Str("zz")}

\* Every shape of a keys / mouse_buttons field over the given elements.
Fields(E) ==
    {Absent, Scalar(NoneV), Scalar(Num(1))}
    \cup {List(q) : q \in SeqsUpTo(E, MaxLen)}
    \cup {SetOf(q) : q \in {r \in SeqsUpTo({e \in E : Hashable(e)}, 2) : Distinct(r)}}
    \cup {Map({<<k, v>>}) : k \in {e \in E : Hashable(e)}, v \in MapValues}
    \cup {Map({<<Str("zz"), Num(1)>>, <<k, v>>}) :
            k \in {e \in E : Hashable(e) /\ e # Str("zz")}, v \in MapValues}

KeyListArgs ==
    {NoList, SomeList(<<>>), SomeList(<<"zz">>), KeyListArg, SomeList(<<" W ", " Return ", "1">>)}
MouseButtonListArgs ==
    {NoList, SomeList(<<"foo">>), MouseButtonListArg, SomeList(<<"x2", "LEFT", " Mouse4 ">>)}

InitExtract ==
    /\ \/ \E l \in KeyListArgs, raw \in Fields(KeyElements) :
            ex_in = [which |-> "keys", list |-> InitKeyList(l), raw |-> raw, done |-> FALSE]
       \/ \E l \in MouseButtonListArgs, raw \in Fields(ButtonElements) :
            ex_in = [which |-> "buttons", list |-> InitMouseButtonList(l), raw |-> raw,
                     done |-> FALSE]
    /\ ex_out = Returns({})
    /\ ctl = NoController
    /\ twin = NoController
    /\ events = <<>>
    /\ twin_events = <<>>
    /\ raised = FALSE
    /\ last = [op |-> "init", action |-> NoAction]
    /\ prev = "other"
    /\ sent = NothingSent
    /\ NoHook
    /\ NoSampler

ExtractKeys ==
    /\ ~ex_in.done /\ ex_in.which = "keys"
    /\ ex_out' = _extract_keys(ex_in.list, ex_in.raw)
    /\ ex_in' = [ex_in EXCEPT !.done = TRUE]
    /\ UNCHANGED <<ctlVars, twinVars, hookVars, samVars>>

ExtractButtons ==
    /\ ~ex_in.done /\ ex_in.which = "buttons"
    /\ ex_out' = _extract_buttons(ex_in.list, ex_in.raw)
    /\ ex_in' = [ex_in EXCEPT !.done = TRUE]
    /\ UNCHANGED <<ctlVars, twinVars, hookVars, samVars>>

NextExtract == ExtractKeys \/ ExtractButtons

SpecExtract == InitExtract /\ [][NextExtract]_vars

(***************************************************************************)
(* The hook under calls of start(), stop() and poll() while its thread     *)
(* creates the window and pumps messages (SpecHook).                       *)
(***************************************************************************)
Exited(t) == pump[t].pc = "done"
Alive(t) == pump[t].pc \notin {"unborn", "done"}

CtlIdle ==
    /\ ctl = NoController
    /\ twin = NoController
    /\ events = <<>>
    /\ twin_events = <<>>
    /\ raised = FALSE
    /\ last = [op |-> "init", action |-> NoAction]
    /\ prev = "other"
    /\ sent = NothingSent
    /\ ex_in = NoExtraction
    /\ ex_out = Returns({})

InitHook == HookIdle(MaxThreads) /\ CtlIdle /\ NoSampler

Others == UNCHANGED <<ctlVars, twinVars, exVars, samVars>>

\* The caller as it enters a call; started tells a stop() that the calls since
\* the last start() were stop() calls, and that this start() returned normally.
Calls(op) ==
    [caller EXCEPT !.op = op, !.result = "", !.started = (op = "stop" /\ caller.started)]

\* start(), lines 120-123: a no-op on a started hook, else the thread is spawned.
Start ==
    /\ caller.pc = "idle"
    /\ IF hook.thread # None
       THEN /\ caller' = [Calls("start") EXCEPT !.result = "returned", !.started = TRUE]
            /\ UNCHANGED <<hook, pump>>
       ELSE \E t \in Threads :
               /\ pump[t].pc = "unborn"
               /\ \A u \in Threads : u < t => pump[u].pc # "unborn"
               /\ hook' = [hook EXCEPT !.thread = t]
               /\ pump' = [pump EXCEPT ![t].pc = "run"]
               /\ caller' = [Calls("start") EXCEPT !.pc = "start_wait"]
    /\ UNCHANGED <<lock, os, n_events, owed, since>>
    /\ Others

\* start(), lines 124-127: the ready event is set.
StartReady ==
    /\ caller.pc = "start_wait"
    /\ hook.ready
    /\ caller' = [caller EXCEPT !.pc = "idle",
                     !.result = IF hook.error # "" THEN hook.error ELSE "returned",
                     !.started = (hook.error = "")]
    /\ UNCHANGED <<hook, lock, pump, os, n_events, owed, since>>
    /\ Others

\* start(), lines 124-125: the wait times out.
StartTimeout ==
    /\ caller.pc = "start_wait"
    /\ ~hook.ready
    /\ caller' = [caller EXCEPT !.pc = "idle",
                     !.result = "Raw input thread failed to start.",
                     !.started = FALSE]
    /\ UNCHANGED <<hook, lock, pump, os, n_events, owed, since>>
    /\ Others

\* stop(), lines 130-135: the close or quit request, then the join begins.
Stop ==
    /\ caller.pc = "idle"
    /\ os' = IF hook.hwnd # None
             THEN [os EXCEPT !.posted = IF hook.hwnd \in os.windows
                                        THEN @ \cup {<<hook.hwnd, WM_CLOSE>>} ELSE @]
             ELSE IF hook.thread_id # None
             THEN [os EXCEPT !.posted = IF Alive(hook.thread_id)
                                        THEN @ \cup {<<hook.thread_id, WM_QUIT>>} ELSE @]
             ELSE os
    /\ IF hook.thread # None
       THEN /\ caller' = [Calls("stop") EXCEPT !.pc = "stop_join"]
            /\ hook' = hook
       ELSE /\ caller' = [Calls("stop") EXCEPT !.result = "returned"]
            /\ hook' = [hook EXCEPT !.thread = None]
    /\ UNCHANGED <<lock, pump, n_events, owed, since>>
    /\ Others

\* stop(), lines 135-136: the thread has ended and join returns.
StopJoined ==
    /\ caller.pc = "stop_join"
    /\ Exited(hook.thread)
    /\ hook' = [hook EXCEPT !.thread = None]
    /\ caller' = [caller EXCEPT !.pc = "idle", !.result = "returned"]
    /\ UNCHANGED <<lock, pump, os, n_events, owed, since>>
    /\ Others

\* As StopJoinTimeout, for a join() without timeout: it never gives up.
StopJoinNoTimeout ==
    /\ caller.pc = "stop_join"
    /\ FALSE
    /\ UNCHANGED vars

\* stop(), lines 135-136: join gives up after its timeout.
StopJoinTimeout ==
    /\ caller.pc = "stop_join"
    /\ ~Exited(hook.thread)
    /\ hook' = [hook EXCEPT !.thread = None]
    /\ caller' = [caller EXCEPT !.pc = "idle", !.result = "returned"]
    /\ UNCHANGED <<lock, pump, os, n_events, owed, since>>
    /\ Others

\* poll(), line 139: the lock is taken.
PollAcquire ==
    /\ caller.pc = "idle"
    /\ CanAcquire(lock)
    /\ lock' = "caller"
    /\ caller' = [Calls("poll") EXCEPT !.pc = "poll_read"]
    /\ UNCHANGED <<hook, pump, os, n_events, owed, since>>
    /\ Others

\* poll(), lines 140-142: the accumulator is read.
PollRead ==
    /\ caller.pc = "poll_read"
    /\ caller' = [caller EXCEPT !.pc = "poll_reset",
                     !.got = Triple(hook.dx, hook.dy, hook.wheel),
                     !.expected = since]
    /\ since' = ZeroTriple
    /\ UNCHANGED <<hook, lock, pump, os, n_events, owed>>
    /\ Others

\* poll(), lines 143-146: the accumulator is reset, the lock released and the
\* deltas returned.
PollReset ==
    /\ caller.pc = "poll_reset"
    /\ hook' = [hook EXCEPT !.dx = 0, !.dy = 0, !.wheel = 0]
    /\ lock' = "free"
    /\ caller' = [caller EXCEPT !.pc = "idle", !.result = "returned",
                                !.got = ZeroTriple, !.expected = ZeroTriple]
    /\ owed' = Minus(owed, caller.got)
    /\ UNCHANGED <<pump, os, n_events, since>>
    /\ Others

\* What ends with a thread: its windows and its message queue.
ThreadGone(o, t) ==
    [o EXCEPT !.windows = @ \ {t}, !.posted = {m \in @ : m[1] # t},
              !.raw_target = IF @ = t THEN None ELSE @]

\* _run(), line 149.
RunThreadId(t) ==
    /\ pump[t].pc = "run"
    /\ hook' = [hook EXCEPT !.thread_id = t]
    /\ pump' = [pump EXCEPT ![t].pc = "create"]
    /\ UNCHANGED <<lock, caller, os, n_events, owed, since>>
    /\ Others

\* _run(), lines 160-178: the window is created, or it is not.
RunCreateWindow(t) ==
    /\ pump[t].pc = "create"
    /\ \/ /\ hook' = [hook EXCEPT !.hwnd = t]
          /\ os' = [os EXCEPT !.windows = @ \cup {t}]
          /\ pump' = [pump EXCEPT ![t].pc = "register"]
       \/ /\ hook' = [hook EXCEPT !.hwnd = None, !.error = "CreateWindowExW failed.",
                                  !.ready = TRUE]
          /\ os' = ThreadGone(os, t)
          /\ pump' = [pump EXCEPT ![t].pc = "done"]
    /\ UNCHANGED <<lock, caller, n_events, owed, since>>
    /\ Others

\* _run(), lines 180-187: the window is registered for raw input, or it is not.
RunRegister(t) ==
    /\ pump[t].pc = "register"
    /\ \/ /\ hook' = [hook EXCEPT !.ready = TRUE]
          /\ os' = [os EXCEPT !.raw_target = t]
          /\ pump' = [pump EXCEPT ![t].pc = "loop"]
       \/ /\ hook' = [hook EXCEPT !.error = "RegisterRawInputDevices failed.",
                                  !.ready = TRUE]
          /\ os' = ThreadGone(os, t)
          /\ pump' = [pump EXCEPT ![t].pc = "done"]
    /\ UNCHANGED <<lock, caller, n_events, owed, since>>
    /\ Others

\* _run(), line 190: GetMessageW returns 0 on WM_QUIT and the thread ends.
LoopQuit(t) ==
    /\ pump[t].pc = "loop"
    /\ <<t, WM_QUIT>> \in os.posted
    /\ <<t, WM_CLOSE>> \notin os.posted
    /\ os' = ThreadGone(os, t)
    /\ pump' = [pump EXCEPT ![t].pc = "done"]
    /\ UNCHANGED <<hook, lock, caller, n_events, owed, since>>
    /\ Others

\* _handle_message, lines 203-208: WM_CLOSE destroys the window, whose
\* WM_DESTROY posts the quit message.
HandleClose(t) ==
    /\ pump[t].pc = "loop"
    /\ <<t, WM_CLOSE>> \in os.posted
    /\ _handle_message(WM_CLOSE) = "DestroyWindow"
    /\ _handle_message(WM_DESTROY) = "PostQuitMessage"
    /\ os' = [os EXCEPT !.windows = @ \ {t},
                        !.posted = (@ \ {<<t, WM_CLOSE>>}) \cup {<<t, WM_QUIT>>},
                        !.raw_target = IF @ = t THEN None ELSE @]
    /\ UNCHANGED <<hook, lock, pump, caller, n_events, owed, since>>
    /\ Others

\* _handle_message / _handle_raw_input, lines 195-251: a WM_INPUT message is
\* dispatched and its record read.
HandleInput(t) ==
    /\ pump[t].pc = "loop"
    /\ os.raw_target = t
    /\ _handle_message(WM_INPUT) = "_handle_raw_input"
    /\ n_events < MaxEvents
    /\ n_events' = n_events + 1
    /\ \E raw \in RawInputs :
          IF RawReadable(raw)
          THEN /\ pump' = [pump EXCEPT ![t].pc = "acquire", ![t].msg = raw,
                               ![t].d = RawDelta(raw, hook.last_abs),
                               ![t].abs_before = hook.last_abs]
               /\ hook' = [hook EXCEPT !.last_abs = RawLastAbs(raw, hook.last_abs)]
          ELSE /\ pump' = pump
               /\ hook' = hook
    /\ UNCHANGED <<lock, caller, os, owed, since>>
    /\ Others

\* _handle_message, lines 198-199: a WM_MOUSEWHEEL message is dispatched.
HandleWheel(t) ==
    /\ pump[t].pc = "loop"
    /\ t \in os.windows
    /\ _handle_message(WM_MOUSEWHEEL) = "add_wheel"
    /\ n_events < MaxEvents
    /\ n_events' = n_events + 1
    /\ \E wparam \in WheelParams :
          pump' = [pump EXCEPT ![t].pc = "acquire",
                               ![t].msg = [NoMsg EXCEPT !.status = "wheel", !.wparam = wparam],
                               ![t].d = Triple(0, 0, WheelDelta(wparam))]
    /\ UNCHANGED <<hook, lock, caller, os, owed, since>>
    /\ Others

\* Lines 200, 253: the handler takes the lock.
HandlerAcquire(t) ==
    /\ pump[t].pc = "acquire"
    /\ CanAcquire(lock)
    /\ lock' = "pump"
    /\ pump' = [pump EXCEPT ![t].pc = "add"]
    /\ UNCHANGED <<hook, caller, os, n_events, owed, since>>
    /\ Others

\* Lines 201-202, 254-256: the deltas are added to the accumulator, the lock is
\* released and the handler returns.
HandlerAdd(t) ==
    /\ pump[t].pc = "add"
    /\ hook' = [hook EXCEPT !.dx = @ + pump[t].d.dx, !.dy = @ + pump[t].d.dy,
                            !.wheel = @ + pump[t].d.wheel]
    /\ owed' = Plus(owed, pump[t].d)
    /\ since' = Plus(since, pump[t].d)
    /\ lock' = "free"
    /\ pump' = [pump EXCEPT ![t] = [NoLocals EXCEPT !.pc = "loop"]]
    /\ UNCHANGED <<caller, os, n_events>>
    /\ Others

NextHook ==
    \/ Start \/ StartReady \/ StartTimeout
    \/ Stop \/ StopJoined \/ StopJoinTimeout
    \/ PollAcquire \/ PollRead \/ PollReset
    \/ \E t \in Threads :
          \/ RunThreadId(t) \/ RunCreateWindow(t) \/ RunRegister(t)
          \/ LoopQuit(t) \/ HandleClose(t) \/ HandleInput(t) \/ HandleWheel(t)
          \/ HandlerAcquire(t) \/ HandlerAdd(t)

SpecHook == InitHook /\ [][NextHook]_vars

(***************************************************************************)
(* The life cycle of the hook alone: start() and stop() calls and the      *)
(* threads they spawn, with no input arriving. Every start() that finds    *)
(* self._thread None spawns a new thread; a thread that can take a step of *)
(* _run eventually takes it.                                               *)
(***************************************************************************)
MaxStarts == 2

InitLife == HookIdle(MaxStarts) /\ CtlIdle /\ NoSampler

\* The steps of the thread t running _run.
Pump(t) ==
    \/ RunThreadId(t) \/ RunCreateWindow(t) \/ RunRegister(t)
    \/ LoopQuit(t) \/ HandleClose(t)

NextLife ==
    \/ Start \/ StartReady \/ StartTimeout
    \/ Stop \/ StopJoined \/ StopJoinTimeout
    \/ \E t \in Threads : Pump(t)

SpecLife ==
    /\ InitLife
    /\ [][NextLife]_vars
    /\ \A t \in 1..MaxStarts : WF_vars(Pump(t))

(***************************************************************************)
(* The sampler under a sequence of sample() calls, with and without a      *)
(* capture handle (SpecSample).                                            *)
(***************************************************************************)
MaxSamples == 3

SamplerKeysArg == <<" Return ", "zz", "w", "enter">>
SamplerButtonsArg == <<"LEFT", "foo", " Mouse4 ", "left">>

\* The virtual keys that are down when a sample is taken: none, W, or Enter
\* with the left and the first extra mouse button.
DownSets == {{}, {87}, {13, 1, 5}}

\* The cursor positions GetCursorPos reports.
Positions == {<<0, 0>>, <<3, -2>>, <<10, 4>>}

\* What the handle's poll() may do.
PollOutcomes == {PollRaises, PollReturns(0, 0, 0), PollReturns(2, -1, 120)}

InitSample ==
    /\ \E raw_mouse \in BOOLEAN :
          sampler = KeyboardMouseState(SamplerKeysArg, SamplerButtonsArg, raw_mouse)
    /\ snapshot = NoSnapshot
    /\ n_samples = 0
    /\ HookIdle(0)
    /\ CtlIdle

Sample ==
    /\ n_samples < MaxSamples
    /\ \E down \in DownSets, pos \in Positions, polled \in PollOutcomes :
          LET o == sample(sampler, down, pos[1], pos[2], polled)
          IN  /\ sampler' = o.sampler
              /\ snapshot' = o.snapshot
    /\ n_samples' = n_samples + 1
    /\ UNCHANGED <<ctlVars, twinVars, exVars, hookVars>>

NextSample == Sample

SpecSample == InitSample /\ [][NextSample]_vars

(***************************************************************************)
(* Properties.                                                             *)
(***************************************************************************)
IsPress(ev) == ev.kind \in {"key", "button"} /\ ev.is_down
IsRelease(ev) == ev.kind \in {"key", "button"} /\ ~ev.is_down
Count(evs, ev) == Cardinality({i \in DOMAIN evs : evs[i] = ev})
Has(evs, Is(_)) == \E i \in DOMAIN evs : Is(evs[i])

\* A list or tuple of numbers.
IsNumericSeq(raw) == raw.shape = "list" /\ \A i \in DOMAIN raw.elems : raw.elems[i].t = "num"

\* The actions that ask for nothing.
EmptyActions ==
    {NoAction,
     Action(EmptyList, EmptyList, Zero, Zero, Zero),
     Action(List(<<Num(0), Num(0)>>), List(<<Num(0), Num(0)>>), Absent, Absent, Absent)}

\* evs is one release of each of the keys and buttons, and nothing else.
ReleasesExactly(evs, keys, buttons) ==
    /\ Len(evs) = Cardinality(keys) + Cardinality(buttons)
    /\ \A k \in keys : Count(evs, KeyEvent(k, FALSE)) = 1
    /\ \A b \in buttons : Count(evs, MouseButtonEvent(b, FALSE)) = 1

\* C1: a step(A) that directly follows a step(A) dispatches no key or button
\* event and leaves the held keys and buttons as the first call left them.
C1_StepIdempotent ==
    [][(last.op = "step" /\ last' = last) =>
          /\ \A i \in DOMAIN events' : events'[i].kind \notin {"key", "button"}
          /\ ctl'.pressed_keys = ctl.pressed_keys
          /\ ctl'.pressed_mouse_buttons = ctl.pressed_mouse_buttons]_vars

\* A live controller holding keys and buttons after the second of two equal steps.
C1_Witness ==
    /\ prev = "same" /\ last.op = "step" /\ ~raised /\ ~ctl.dry_run
    /\ ctl.pressed_keys # {} /\ ctl.pressed_mouse_buttons # {}
    /\ \A i \in DOMAIN events : events[i].kind \notin {"key", "button"}

\* C2: on a live controller, a step of an empty action that directly follows a
\* completed step(A) dispatches exactly one release for each key and each button
\* A asked for, dispatches nothing else, and leaves both held sets empty.
C2_ReleaseCompleteness ==
    [][(/\ last.op = "step" /\ ~raised /\ ~ctl.dry_run
        /\ last'.op = "step" /\ last'.action \in EmptyActions) =>
          /\ ReleasesExactly(events', DesiredKeys(ctl, last.action).names,
                             DesiredButtons(ctl, last.action).names)
          /\ ctl'.pressed_keys = {}
          /\ ctl'.pressed_mouse_buttons = {}]_vars

\* The whitelist scenario: after [1,1] the vector [0,0] released both keys.
C2_Witness ==
    /\ prev = "step" /\ last.op = "step" /\ ~ctl.dry_run
    /\ last.action.keys = List(<<Num(0), Num(0)>>)
    /\ Count(events, KeyEvent("enter", FALSE)) = 1
    /\ Count(events, KeyEvent("w", FALSE)) = 1
    /\ ctl.pressed_keys = {}

\* The move event follows every key and button event, and the wheel event is last.
MotionLast(evs) ==
    /\ \A i, j \in DOMAIN evs :
          evs[i].kind \in {"key", "button"} /\ evs[j].kind = "move" => i < j
    /\ \A i \in DOMAIN evs : evs[i].kind = "wheel" => i = Len(evs)

\* C3 as stated: in one step every release, of a key or of a button, comes
\* before every press of either kind; the move comes after them, the wheel last.
C3_ReleasesBeforePresses ==
    last.op = "step" =>
       /\ \A i, j \in DOMAIN events : IsRelease(events[i]) /\ IsPress(events[j]) => i < j
       /\ MotionLast(events)

\* C3 as amended: in one step every key release comes before every key press and
\* every button release before every button press; the move comes after all key
\* and button events, the wheel last.
C3_Ordering ==
    last.op = "step" =>
       /\ \A i, j \in DOMAIN events :
             /\ IsRelease(events[i]) /\ IsPress(events[j])
             /\ events[i].kind = events[j].kind
             => i < j
       /\ MotionLast(events)

\* A step that released and pressed a key, released and pressed a button, moved
\* and scrolled.
C3_Witness ==
    /\ last.op = "step"
    /\ \E i, j, k, l \in DOMAIN events :
          /\ events[i].kind = "key" /\ IsRelease(events[i])
          /\ events[j].kind = "key" /\ IsPress(events[j])
          /\ events[k].kind = "button" /\ IsRelease(events[k])
          /\ events[l].kind = "button" /\ IsPress(events[l])
    /\ \E i \in DOMAIN events : events[i].kind = "move"
    /\ \E i \in DOMAIN events : events[i].kind = "wheel"

\* C4: after every call of a script, the dry-run controller holds the keys and
\* buttons the live controller holds, and it has dispatched nothing.
C4_DryRunEquivalence ==
    /\ twin.dry_run /\ ~ctl.dry_run
    /\ twin.pressed_keys = ctl.pressed_keys
    /\ twin.pressed_mouse_buttons = ctl.pressed_mouse_buttons
    /\ twin_events = <<>>

\* A step on which the live controller released and pressed, the twin nothing.
C4_Witness ==
    /\ last.op = "step" /\ prev = "step"
    /\ Has(events, IsRelease) /\ Has(events, IsPress)
    /\ twin.pressed_keys = ctl.pressed_keys /\ ctl.pressed_keys # {}
    /\ twin.pressed_mouse_buttons = ctl.pressed_mouse_buttons
    /\ ctl.pressed_mouse_buttons # {}
    /\ twin_events = <<>>

\* The names a vector selects from a whitelist, by position.
Selected(names, raw) ==
    IF Len(raw.elems) = Len(names)
    THEN {names[i] : i \in {j \in 1..Len(names) : raw.elems[j].n > 0}}
    ELSE {}

\* C5: with a whitelist configured, a sequence of numbers of the whitelist's
\* length decodes to the names at the positions whose value is > 0, and a
\* sequence of numbers of another length to the empty set; neither raises.
C5_VectorDecoding ==
    (ex_in.done /\ ex_in.list.some /\ IsNumericSeq(ex_in.raw)) =>
       ex_out = Returns(Selected(ex_in.list.items, ex_in.raw))

\* [1,-1,1] decoded against the whitelist [w, enter, 1].
C5_Witness ==
    /\ ex_in.done /\ ex_in.which = "keys"
    /\ ex_in.list = SomeList(<<"w", "enter", "1">>)
    /\ ex_in.raw = List(<<Num(1), Num(-1), Num(1)>>)
    /\ ex_out = Returns({"w", "1"})

\* C8: every held key is a name of VK_CODE and every held button a name of
\* MOUSE_BUTTON_FLAGS.
C8_CanonicalNames ==
    /\ ctl.pressed_keys \subseteq DOMAIN VK_CODE
    /\ ctl.pressed_mouse_buttons \subseteq DOMAIN MOUSE_BUTTON_FLAGS

\* A step given an alias and an unknown name holds the canonical name only.
C8_Witness ==
    /\ last.op = "step" /\ ~raised
    /\ last.action.keys = List(<<Str(" Return "), Str("zz")>>)
    /\ ctl.pressed_keys = {"enter"}

Malformed(raw, n) ==
    /\ raw.shape = "list"
    /\ \E i \in DOMAIN raw.elems : raw.elems[i].t = "num"
    /\ \/ Len(raw.elems) # n
       \/ \E i \in DOMAIN raw.elems : raw.elems[i].t # "num"

\* C10: with a whitelist configured, a step given a malformed positional vector
\* does not raise and leaves no key (button) of that kind held.
C10_MalformedVectorEmpty ==
    last.op = "step" =>
       /\ (/\ ListTruthy(ctl.key_list)
           /\ Malformed(Get(last.action.keys, EmptyList), Len(ctl.key_list.items)))
             => ~raised /\ ctl.pressed_keys = {}
       /\ (/\ ListTruthy(ctl.mouse_button_list)
           /\ Malformed(Get(last.action.mouse_buttons, EmptyList),
                        Len(ctl.mouse_button_list.items)))
             => ~raised /\ ctl.pressed_mouse_buttons = {}

Accumulator == Triple(hook.dx, hook.dy, hook.wheel)

\* C6: in every interleaving of the handlers with poll(), poll() returns the
\* sum of the deltas added since the previous poll() read the accumulator
\* (zero when no event came in between), and the poll results so far plus the
\* accumulator equal the sum of all the deltas added: none is lost, none is
\* returned twice.
C6_AccumulatorCorrect ==
    /\ caller.pc = "poll_reset" => caller.got = caller.expected
    /\ owed = Accumulator
    /\ caller.pc = "poll_read" => Accumulator = since

\* A poll() returning deltas while a handler waits for the lock with more.
C6_Witness ==
    /\ caller.pc = "poll_reset"
    /\ caller.got.dx # 0
    /\ caller.got.wheel # 0
    /\ \E t \in Threads : pump[t].pc = "acquire" /\ pump[t].d # ZeroTriple

IsAbsolute(m) == m.status = "read" /\ BitSet(m.usFlags, MOUSE_MOVE_ABSOLUTE)

\* C7: an absolute event handled with no stored sample adds a motion delta of
\* (0,0) and stores its coordinates; a later absolute event adds its
\* coordinates minus the stored sample.
C7_FirstAbsoluteSampleZero ==
    \A t \in Threads :
        pump[t].pc = "acquire" /\ IsAbsolute(pump[t].msg) =>
            /\ hook.last_abs = <<pump[t].msg.lLastX, pump[t].msg.lLastY>>
            /\ IF pump[t].abs_before = NoPos
               THEN pump[t].d.dx = 0 /\ pump[t].d.dy = 0
               ELSE /\ pump[t].d.dx = pump[t].msg.lLastX - pump[t].abs_before[1]
                    /\ pump[t].d.dy = pump[t].msg.lLastY - pump[t].abs_before[2]

\* C11: reset() on a live controller dispatches exactly one release for each
\* held key and each held button and nothing else, on a dry-run controller it
\* dispatches nothing; in both cases the held sets are empty afterwards, and a
\* step(A) that directly follows presses every name A asks for.
C11_ResetReleasesAll ==
    [][/\ last'.op = "reset" =>
            /\ IF ctl.dry_run THEN events' = <<>>
               ELSE ReleasesExactly(events', ctl.pressed_keys, ctl.pressed_mouse_buttons)
            /\ ~raised'
            /\ ctl'.pressed_keys = {}
            /\ ctl'.pressed_mouse_buttons = {}
       /\ (last.op = "reset" /\ last'.op = "step" /\ ~raised') =>
            /\ ctl'.pressed_keys = DesiredKeys(ctl, last'.action).names
            /\ ctl'.pressed_mouse_buttons = DesiredButtons(ctl, last'.action).names
            /\ ~ctl.dry_run =>
                  /\ \A k \in ctl'.pressed_keys : Count(events', KeyEvent(k, TRUE)) = 1
                  /\ \A b \in ctl'.pressed_mouse_buttons :
                        Count(events', MouseButtonEvent(b, TRUE)) = 1
                  /\ ~Has(events', IsRelease)]_vars

\* A reset() of a live controller that released a key and a button.
C11_Witness ==
    /\ last.op = "reset" /\ ~ctl.dry_run
    /\ Len(events) = 2
    /\ Count(events, KeyEvent("w", FALSE)) = 1
    /\ Count(events, MouseButtonEvent("x1", FALSE)) = 1
    /\ ctl.pressed_keys = {} /\ ctl.pressed_mouse_buttons = {}

\* The capture is Running: the thread of the hook is in its message loop, its
\* window exists and is the target registered for raw input.
Running ==
    /\ hook.thread # None
    /\ pump[hook.thread].pc \in {"loop", "acquire", "add"}
    /\ hook.thread \in os.windows
    /\ os.raw_target = hook.thread

StartReturned == caller.pc = "idle" /\ caller.op = "start"

\* C12: whenever start() returns without raising, the capture is Running; when
\* the ready signal did not come in time, or the window or the registration
\* failed, start() raises, with different causes for the two failures.
C12_StartSuccessRunning ==
    [][/\ (StartReturned' /\ caller'.result = "returned") => Running'
       /\ (caller.pc = "start_wait" /\ StartReturned' /\ ~Running') =>
             /\ caller'.result # "returned"
             /\ ~hook.ready => caller'.result = "Raw input thread failed to start."
             /\ (hook.ready /\ hook.hwnd = None) =>
                   caller'.result = "CreateWindowExW failed."
             /\ (hook.ready /\ hook.hwnd # None) =>
                   caller'.result = "RegisterRawInputDevices failed."]_vars

\* C13: stop() returns in every state, also while the thread keeps running: a
\* stop() that waits can always leave its join.  It raises nothing, leaves the
\* thread handle cleared and the accumulator as it was, and a stop() called
\* right after a stop() changes nothing of the hook.
C13_StopIdempotent ==
    /\ [](caller.pc = "stop_join" => ENABLED (StopJoined \/ StopJoinTimeout))
    /\ [][/\ (Stop \/ StopJoined \/ StopJoinTimeout) =>
               /\ Accumulator' = Accumulator
               /\ caller'.pc = "idle" => caller'.result = "returned" /\ hook'.thread = None
          /\ (Stop /\ caller.op = "stop") => caller'.pc = "idle" /\ hook' = hook]_vars

\* stop() has returned while the thread is still in its loop, the close request
\* not yet handled.
C13_Witness ==
    /\ caller.pc = "idle" /\ caller.op = "stop" /\ caller.result = "returned"
    /\ hook.thread = None
    /\ \E t \in Threads : pump[t].pc = "loop" /\ <<t, WM_CLOSE>> \in os.posted

Sampled == n_samples' = n_samples + 1
MotionOf(snap) == Triple(snap.mouse_dx, snap.mouse_dy, snap.mouse_wheel)

\* The position of snap minus the position of the snapshot before it, zero when
\* there is none; no wheel.
SincePreceding(snap, before) ==
    IF before.mouse_pos = NoPos THEN ZeroTriple
    ELSE Triple(snap.mouse_pos[1] - before.mouse_pos[1],
                snap.mouse_pos[2] - before.mouse_pos[2], 0)

\* C14: without a capture handle the first sample reports the motion (0,0) and
\* every later sample its cursor position minus the position of the sample
\* before it; every sample reports wheel 0 and no sample calls poll().
C14_CursorDifferencing ==
    [][(Sampled /\ ~sampler.raw_mouse) =>
          /\ MotionOf(snapshot') = SincePreceding(snapshot', snapshot)
          /\ n_samples = 0 => snapshot'.mouse_dx = 0 /\ snapshot'.mouse_dy = 0
          /\ snapshot'.mouse_wheel = 0
          /\ snapshot'.polled = "not called"
          /\ sampler'.prev_pos = snapshot'.mouse_pos]_vars

\* The third sample without a handle, taken at (10,4) after one at (3,-2).
C14_Witness ==
    /\ n_samples = 3 /\ ~sampler.raw_mouse
    /\ snapshot.mouse_pos = <<10, 4>>
    /\ snapshot.mouse_dx = 7 /\ snapshot.mouse_dy = 6

\* C15: with a capture handle every sample calls poll(); when poll() raises,
\* the sample reports the cursor differencing of _cursor_delta with wheel 0
\* and raises nothing; when poll() returns, the sample reports exactly what it
\* returned; the handle stays configured whatever poll() did.
C15_FallbackTransient ==
    [][(Sampled /\ sampler.raw_mouse) =>
          /\ snapshot'.polled \in {"raised", "returned"}
          /\ sampler'.raw_mouse
          /\ snapshot'.polled = "returned" => MotionOf(snapshot') = snapshot'.poll_d
          /\ snapshot'.polled = "raised" =>
                /\ MotionOf(snapshot') =
                      _cursor_delta(sampler, snapshot'.mouse_pos[1], snapshot'.mouse_pos[2]).d
                /\ snapshot'.mouse_wheel = 0]_vars

\* The third sample reports what poll() returned, after a sample whose poll()
\* raised.
C15_Witness ==
    /\ n_samples = 3 /\ sampler.raw_mouse
    /\ snapshot.polled = "returned"
    /\ MotionOf(snapshot) = Triple(2, -1, 120)
    /\ sampler.prev_pos # NoPos

\* C20: with a capture handle, a sample whose poll() raises reports its cursor
\* position minus the position read by the sample before it, zero only when it
\* is the first sample, wherever the samples before took their motion from.
C20_FallbackSincePreceding ==
    [][(Sampled /\ sampler.raw_mouse /\ snapshot'.polled = "raised") =>
          MotionOf(snapshot') = SincePreceding(snapshot', snapshot)]_vars

FallbackNeeded(c) ==
    c.requested = "pyautogui" \/ (c.requested = "sendinput" /\ ~c.sendinput_available)

\* C16: asked for the native backend without the native capability, the
\* controller is constructed with the fallback backend; when the fallback
\* backend is needed and its library is missing, construction fails, and only
\* then; a constructed controller has a backend whose capability is there.
C16_BackendSelection ==
    ctl.requested \in {"sendinput", "pyautogui"} =>
       /\ (ctl.requested = "sendinput" /\ ~ctl.sendinput_available /\ ctl.pyautogui_available)
             => ctl.constructed /\ ctl.backend = "pyautogui"
       /\ ~ctl.constructed <=> (FallbackNeeded(ctl) /\ ~ctl.pyautogui_available)
       /\ ctl.constructed =>
             \/ ctl.backend = "sendinput" /\ ctl.sendinput_available
             \/ ctl.backend = "pyautogui" /\ ctl.pyautogui_available

\* A controller asked for as native, built with the fallback, after a step
\* that dispatched events.
C16_Witness ==
    /\ ctl.constructed
    /\ ctl.requested = "sendinput" /\ ctl.backend = "pyautogui"
    /\ last.op = "step" /\ events # <<>>

\* The place of an event's category in the order of a step.
Rank(ev) ==
    CASE ev.kind = "key" /\ ~ev.is_down -> 1
      [] ev.kind = "key" /\ ev.is_down -> 2
      [] ev.kind = "button" /\ ~ev.is_down -> 3
      [] ev.kind = "button" /\ ev.is_down -> 4
      [] ev.kind = "move" -> 5
      [] OTHER -> 6

\* A field that is absent or holds nothing int() accepts: None, a string that
\* is no number, an empty sequence, a sequence that starts with such a value.
NonCoercible(field) ==
    \/ field.shape = "absent"
    \/ field.shape = "scalar" /\ ~Converts(field.elems[1])
    \/ field.shape = "list" /\ (field.elems = <<>> \/ ~Converts(field.elems[1]))

\* C17: a completed step of a live controller dispatches its events in the
\* order key releases, key presses, button releases, button presses, move,
\* wheel; one move with (dx, dy) iff dx or dy is not 0 and one wheel iff wheel
\* is not 0; a mouse field that is absent or not coercible counts as 0.
C17_EmissionSequence ==
    (last.op = "step" /\ ~raised /\ ~ctl.dry_run) =>
       LET a == last.action
           dx == _value_from_action(Get(a.mouse_dx, Zero))
           dy == _value_from_action(Get(a.mouse_dy, Zero))
           wheel == _value_from_action(Get(a.mouse_wheel, Zero))
           moves == {i \in DOMAIN events : events[i].kind = "move"}
           wheels == {i \in DOMAIN events : events[i].kind = "wheel"}
       IN  /\ \A i, j \in DOMAIN events : i < j => Rank(events[i]) <= Rank(events[j])
           /\ Cardinality(moves) = IF dx # 0 \/ dy # 0 THEN 1 ELSE 0
           /\ Cardinality(wheels) = IF wheel # 0 THEN 1 ELSE 0
           /\ \A i \in moves : events[i] = MouseMove(dx, dy)
           /\ \A i \in wheels : events[i] = MouseWheel(wheel)
           /\ NonCoercible(a.mouse_dx) => dx = 0
           /\ NonCoercible(a.mouse_dy) => dy = 0
           /\ NonCoercible(a.mouse_wheel) => wheel = 0

\* A step that dispatched one event of each of the six categories.
C17_Witness ==
    /\ last.op = "step" /\ ~raised /\ ~ctl.dry_run
    /\ Len(events) = 6
    /\ \A r \in 1..6 : Rank(events[r]) = r

\* The buttons the backend of c can press and release.
Actuable(c) ==
    IF c.backend = "pyautogui" THEN {"left", "right", "middle"}
    ELSE DOMAIN MOUSE_BUTTON_FLAGS

\* C18 as stated: with a live controller of either backend, the keys and
\* buttons pressed and not released since are exactly the held ones, and nothing
\* was pressed twice, released while up, or pressed and released in one call.
C18_NoStuckOrPhantom ==
    (ctl.constructed /\ ~ctl.dry_run) =>
        /\ sent.keys = ctl.pressed_keys
        /\ sent.buttons = ctl.pressed_mouse_buttons
        /\ sent.faults = {}

\* C18: with a live controller the keys pressed and not released since are
\* exactly the held keys, the buttons pressed and not released since are
\* exactly the held buttons the backend can actuate (all five with SendInput;
\* left, right and middle with the fallback), and nothing was pressed twice,
\* released while up, or pressed and released in one call.
C18_NoStuckOrPhantomActuable ==
    (ctl.constructed /\ ~ctl.dry_run) =>
        /\ sent.keys = ctl.pressed_keys
        /\ sent.buttons = ctl.pressed_mouse_buttons \cap Actuable(ctl)
        /\ sent.faults = {}

\* A step of a live fallback controller that asked for left and x1: both are
\* held, both presses were dispatched, and only left went down.
C18_Witness ==
    /\ ctl.constructed /\ ~ctl.dry_run /\ ctl.backend = "pyautogui"
    /\ last.op = "step" /\ ~raised
    /\ Count(events, MouseButtonEvent("x1", TRUE)) = 1
    /\ Count(events, MouseButtonEvent("left", TRUE)) = 1
    /\ ctl.pressed_mouse_buttons = {"left", "x1"}
    /\ sent.buttons = {"left"}

\* C19: whenever stop() has been called after a start() that returned
\* normally, every pump thread running then eventually ends.
C19_StopLeadsToStopped ==
    \A t \in 1..MaxStarts :
        (caller.op = "stop" /\ caller.started /\ Alive(t)) ~> ~Alive(t)

\* A pump thread in its message loop, with no close or quit request on its way,
\* that can be handed a message whose handler adds to the accumulator: it owns
\* a window, or is the raw-input target.
Feeding(t) ==
    /\ pump[t].pc = "loop"
    /\ <<t, WM_CLOSE>> \notin os.posted /\ <<t, WM_QUIT>> \notin os.posted
    /\ (t \in os.windows \/ os.raw_target = t)

\* C21: at any time at most one pump thread of the hook is alive and feeding
\* the accumulator, whatever start() and stop() calls were made.
C21_SinglePumpThread ==
    Cardinality({t \in Threads : Alive(t) /\ Feeding(t)}) <= 1

\* A list, tuple or set whose elements are all strings.
IsNameCollection(raw) ==
    raw.shape \in {"list", "set"} /\ \A i \in DOMAIN raw.elems : raw.elems[i].t = "str"

\* The known names among the strings of S, normalised for the kind of field.
KnownNames(which, S) ==
    IF which = "keys"
    THEN {normalize_key(e.s) : e \in {x \in S : x.t = "str"}} \cap DOMAIN VK_CODE
    ELSE {normalize_mouse_button(e.s) : e \in {x \in S : x.t = "str"}}
            \cap DOMAIN MOUSE_BUTTON_FLAGS

\* C22: a keys (mouse_buttons) field that is a collection of name strings gives
\* exactly the known normalised names of the collection, with or without a
\* whitelist and whatever its length; a mapping gives exactly the known
\* normalised names whose value is truthy.
C22_NameCollectionExtraction ==
    ex_in.done =>
       /\ IsNameCollection(ex_in.raw) =>
             ex_out = Returns(KnownNames(ex_in.which, Range(ex_in.raw.elems)))
       /\ ex_in.raw.shape = "map" =>
             ex_out = Returns(KnownNames(ex_in.which,
                                 {kv[1] : kv \in {x \in ex_in.raw.items : Truthy(x[2])}}))

====
